---- MODULE Spec2Model ----
(***************************************************************************)
(* Model of package event (kocha): the queue and handler registries,       *)
(* Trigger and its asynchronous enqueue task, the worker pool started by   *)
(* Start and joined by Stop.                                               *)
(*                                                                         *)
(* The registry and lifecycle calls (RegisterQueue, AddHandler,            *)
(* SetWorkersPerQueue, Start, Stop) are issued by one controlling          *)
(* goroutine, so none of them overlaps a Stop that has not returned.       *)
(* Trigger may be called from any goroutine at any time.  The goroutine    *)
(* started by Trigger and the worker goroutines interleave freely.         *)
(***************************************************************************)
EXTENDS Integers, Sequences, FiniteSets, TLC

\* ------------------------------------------------------------------ bounds
\* number of Trigger calls that find a binding
MaxTriggers == 2
\* items a queue backend holds before Enqueue blocks (saturation)
QueueCap == 1
\* worker goroutines alive at a time
MaxWorkers == 2

\* ------------------------------------------------------------------ inputs
Nil == "nil"
QueueNames == {"q1", "q2"}
\* queue backends the application can construct
Instances == {"A", "B"}
EventNames == {"e1", "e2"}
\* h1 returns nil, h2 returns an error
Handlers == {"h1", "h2"}
\* "chan" stands for a value the codec cannot serialize
ArgLists == {<<"a", "b">>, <<"chan">>}
TriggerIds == 1..MaxTriggers
WorkerIds == 1..MaxWorkers
\* arguments of SetWorkersPerQueue
WorkerCounts == -1..MaxWorkers

VARIABLES
    queues,             \* queue name -> registered Queue, or Nil
    handlerQueueNames,  \* event name -> handlerQueueName, or Nil
    workersPerQueue,
    workers,            \* the slice of workers: a sequence of worker ids
    wgEnqueue,          \* wg.enqueue
    wgDequeue,          \* wg.dequeue
    task,               \* the goroutine of each successful Trigger
    wk,                 \* each worker and its goroutine
    buf,                \* backend: the items each registered Queue holds
    stopPc,             \* where the caller of Stop is
    stopIdx,            \* the position of Stop's loop over workers
    ret,                \* the outcome of the last call that has one: Nil for
                        \* success, or the error or panic
    stopReturned,       \* Stop has returned and Start was not called since
    atStop,             \* history: the Triggers that had returned when the
                        \* last Stop was called
    restarted,          \* history: Start was called after a Stop had returned
    dequeueErr          \* ErrorHandler was called with a Dequeue error

vars == <<queues, handlerQueueNames, workersPerQueue, workers, wgEnqueue,
          wgDequeue, task, wk, buf, stopPc, stopIdx, ret, stopReturned,
          atStop, restarted, dequeueErr>>

registry == <<queues, handlerQueueNames>>
pool == <<workers, wk, wgDequeue>>
stopper == <<stopPc, stopIdx, stopReturned, atStop, restarted>>

\* ------------------------------------------------------------------ codec
Serializable(v) == v # "chan"

\* payload.encode: the name followed by the arguments, or an error
encode(pld) ==
    IF \A i \in 1..Len(pld.args) : Serializable(pld.args[i])
    THEN [err |-> FALSE, data |-> <<pld.name>> \o pld.args]
    ELSE [err |-> TRUE, data |-> <<>>]

\* payload.decode: the reverse of encode
decode(data) ==
    IF Len(data) = 0
    THEN [err |-> TRUE, name |-> Nil, args |-> <<>>]
    ELSE [err |-> FALSE, name |-> Head(data), args |-> Tail(data)]

\* the result of calling handler h
HandlerFails(h) == h = "h2"

\* ------------------------------------------------------------------ state
\* the absent entry of handlerQueueNames
NoBinding == [handler |-> Nil, queueName |-> Nil]

NoTask == [pc |-> "none", name |-> Nil, args |-> <<>>, queue |-> Nil,
           handler |-> Nil, enq |-> 0, inv |-> 0, fin |-> 0, bad |-> FALSE,
           errs |-> 0]

NoWorker == [pc |-> "none", queueName |-> Nil, queue |-> Nil, n |-> 0,
             stopped |-> FALSE, item |-> 0, h |-> Nil]

Init ==
    /\ queues = [q \in QueueNames |-> Nil]
    /\ handlerQueueNames = [e \in EventNames |-> NoBinding]
    /\ workersPerQueue = 1
    /\ workers = <<>>
    /\ wgEnqueue = 0
    /\ wgDequeue = 0
    /\ task = [t \in TriggerIds |-> NoTask]
    /\ wk = [w \in WorkerIds |-> NoWorker]
    /\ buf = [i \in Instances |-> <<>>]
    /\ stopPc = "idle"
    /\ stopIdx = 1
    /\ ret = Nil
    /\ stopReturned = FALSE
    /\ atStop = {}
    /\ restarted = FALSE
    /\ dequeueErr = FALSE

\* ------------------------------------------------------------------ registry
\* The registry maps are not locked: they are written only while no worker
\* goroutine reads them and no Stop is in progress.
SetupTime ==
    /\ stopPc = "idle"
    /\ \A w \in WorkerIds : wk[w].pc = "none"

\* mutant: a registered name is overwritten
RegisterQueue_Overwrite(name, queue) ==
    /\ SetupTime
    /\ IF queue = Nil
       THEN /\ ret' = "RegisterQueue panic"
            /\ UNCHANGED queues
       ELSE /\ queues' = [queues EXCEPT ![name] = queue]
            /\ ret' = Nil
    /\ UNCHANGED <<handlerQueueNames, workersPerQueue, wgEnqueue, task, buf,
                   dequeueErr, pool, stopper>>

RegisterQueue(name, queue) ==
    /\ SetupTime
    /\ IF queue = Nil \/ queues[name] # Nil
       THEN /\ ret' = "RegisterQueue panic"
            /\ UNCHANGED queues
       ELSE /\ queues' = [queues EXCEPT ![name] = queue]
            /\ ret' = Nil
    /\ UNCHANGED <<handlerQueueNames, workersPerQueue, wgEnqueue, task, buf,
                   dequeueErr, pool, stopper>>

\* mutant: a name that is already bound is bound again
AddHandler_Rebind(name, queueName, handler) ==
    /\ SetupTime
    /\ IF queues[queueName] = Nil
       THEN /\ ret' = "AddHandler error"
            /\ UNCHANGED handlerQueueNames
       ELSE /\ handlerQueueNames' =
                  [handlerQueueNames EXCEPT
                      ![name] = [handler |-> handler, queueName |-> queueName]]
            /\ ret' = Nil
    /\ UNCHANGED <<queues, workersPerQueue, wgEnqueue, task, buf, dequeueErr,
                   pool, stopper>>

\* mutant: the queue name is not looked up
AddHandler_AnyQueue(name, queueName, handler) ==
    /\ SetupTime
    /\ IF handlerQueueNames[name] # NoBinding
       THEN /\ ret' = "AddHandler error"
            /\ UNCHANGED handlerQueueNames
       ELSE /\ handlerQueueNames' =
                  [handlerQueueNames EXCEPT
                      ![name] = [handler |-> handler, queueName |-> queueName]]
            /\ ret' = Nil
    /\ UNCHANGED <<queues, workersPerQueue, wgEnqueue, task, buf, dequeueErr,
                   pool, stopper>>

AddHandler(name, queueName, handler) ==
    /\ SetupTime
    /\ IF queues[queueName] = Nil \/ handlerQueueNames[name] # NoBinding
       THEN /\ ret' = "AddHandler error"
            /\ UNCHANGED handlerQueueNames
       ELSE /\ handlerQueueNames' =
                  [handlerQueueNames EXCEPT
                      ![name] = [handler |-> handler, queueName |-> queueName]]
            /\ ret' = Nil
    /\ UNCHANGED <<queues, workersPerQueue, wgEnqueue, task, buf, dequeueErr,
                   pool, stopper>>

\* mutant: n is stored as it is
SetWorkersPerQueue_NoClamp(n) ==
    /\ stopPc = "idle"
    /\ workersPerQueue' = n
    /\ UNCHANGED ret
    /\ UNCHANGED <<registry, wgEnqueue, task, buf, dequeueErr, pool,
                   stopper>>

SetWorkersPerQueue(n) ==
    /\ stopPc = "idle"
    /\ workersPerQueue' = IF n < 1 THEN 1 ELSE n
    /\ UNCHANGED ret
    /\ UNCHANGED <<registry, wgEnqueue, task, buf, dequeueErr, pool,
                   stopper>>

\* ------------------------------------------------------------------ Trigger
NextTrigger == Cardinality({t \in TriggerIds : task[t].pc # "none"}) + 1

\* mutant: wg.enqueue.Add(1) comes before the lookup of the binding
Trigger_AddFirst(name, args) ==
    /\ NextTrigger \in TriggerIds
    /\ wgEnqueue' = wgEnqueue + 1
    /\ IF handlerQueueNames[name] = NoBinding
       THEN /\ ret' = "Trigger error"
            /\ UNCHANGED task
       ELSE /\ task' = [task EXCEPT ![NextTrigger] =
                   [NoTask EXCEPT
                       !.pc = "start", !.name = name, !.args = args,
                       !.queue = queues[handlerQueueNames[name].queueName],
                       !.handler = handlerQueueNames[name].handler]]
            /\ ret' = Nil
    /\ UNCHANGED <<registry, workersPerQueue, buf, dequeueErr, pool, stopper>>

Trigger(name, args) ==
    IF handlerQueueNames[name] = NoBinding
    THEN /\ ret' = "Trigger error"
         /\ UNCHANGED <<registry, workersPerQueue, wgEnqueue, task, buf,
                        dequeueErr, pool, stopper>>
    ELSE /\ NextTrigger \in TriggerIds
         /\ wgEnqueue' = wgEnqueue + 1
         /\ task' = [task EXCEPT ![NextTrigger] =
                [NoTask EXCEPT
                    !.pc = "start", !.name = name, !.args = args,
                    !.queue = queues[handlerQueueNames[name].queueName],
                    !.handler = handlerQueueNames[name].handler]]
         /\ ret' = Nil
         /\ UNCHANGED <<registry, workersPerQueue, buf, dequeueErr, pool,
                        stopper>>

\* mutant: the payload is built without the arguments
payload_NoArgs(t) == [name |-> task[t].name, args |-> <<>>]

\* payload{name, args}, the value Trigger's goroutine hands to enqueue
payload(t) == [name |-> task[t].name, args |-> task[t].args]

\* mutant: wg.enqueue.Done is not deferred and is skipped after a failure
TriggerDone_NoDoneOnFailure(t, failed) ==
    /\ task' = [task EXCEPT ![t] =
           [@ EXCEPT !.pc = "done", !.errs = IF failed THEN @ + 1 ELSE @]]
    /\ wgEnqueue' = IF failed THEN wgEnqueue ELSE wgEnqueue - 1

\* mutant: the deferred recover drops the failure
TriggerDone_NoReport(t, failed) ==
    /\ task' = [task EXCEPT ![t] = [@ EXCEPT !.pc = "done"]]
    /\ wgEnqueue' = wgEnqueue - 1

\* ErrorHandler(err) in the deferred recover of Trigger's goroutine, then
\* the deferred wg.enqueue.Done(): the goroutine of Trigger t ends
TriggerDone(t, failed) ==
    /\ task' = [task EXCEPT ![t] =
           [@ EXCEPT !.pc = "done", !.errs = IF failed THEN @ + 1 ELSE @]]
    /\ wgEnqueue' = wgEnqueue - 1

\* mutant: queue.Enqueue is called whatever encode returned
enqueue_EncodeErrorIgnored(t) ==
    /\ task[t].pc = "start"
    /\ task' = [task EXCEPT ![t] =
           [@ EXCEPT !.pc = "inEnqueue", !.enq = @ + 1]]
    /\ UNCHANGED wgEnqueue
    /\ UNCHANGED ret
    /\ UNCHANGED <<registry, workersPerQueue, buf, dequeueErr, pool,
                   stopper>>

\* enqueue, up to the call of queue.Enqueue: an encode error is returned
\* without calling it and ends the goroutine
enqueue(t) ==
    /\ task[t].pc = "start"
    /\ IF encode(payload(t)).err
       THEN TriggerDone(t, TRUE)
       ELSE /\ task' = [task EXCEPT ![t] =
                   [@ EXCEPT !.pc = "inEnqueue", !.enq = @ + 1]]
            /\ UNCHANGED wgEnqueue
    /\ UNCHANGED ret
    /\ UNCHANGED <<registry, workersPerQueue, buf, dequeueErr, pool,
                   stopper>>

\* queue.Enqueue returns: it blocks while the backend is saturated, otherwise
\* the item is added or the backend reports an error; the goroutine ends
EnqueueReturn(t, ok) ==
    /\ task[t].pc = "inEnqueue"
    /\ Len(buf[task[t].queue]) < QueueCap
    /\ buf' = [buf EXCEPT ![task[t].queue] =
           IF ok
           THEN Append(@, [id |-> t,
                           data |-> encode(payload(t)).data])
           ELSE @]
    /\ TriggerDone(t, ~ok)
    /\ UNCHANGED ret
    /\ UNCHANGED <<registry, workersPerQueue, dequeueErr, pool, stopper>>

\* ------------------------------------------------------------------ workers
RECURSIVE Ascending(_)
Ascending(S) ==
    IF S = {} THEN <<>>
    ELSE LET m == CHOOSE x \in S : \A y \in S : x <= y
         IN  <<m>> \o Ascending(S \ {m})

\* orders in which `range queues` can visit the registered names
RangeOrders ==
    LET R == {q \in QueueNames : queues[q] # Nil}
    IN  {s \in UNION {[1..n -> R] : n \in {Cardinality(R)}} :
            \A i, j \in DOMAIN s : i # j => s[i] # s[j]}

\* mutant: the inner loop runs once, whatever workersPerQueue is
startLoop_OnePerQueue(order, k) == order

\* the two loops of Start: the queue name of each worker created, in order
startLoop(order, k) ==
    [j \in 1..(Len(order) * k) |-> order[((j - 1) \div k) + 1]]

\* Queue.New(n): the instance view a worker gets
New(queue, n) == [queue |-> queue, n |-> n]

\* newWorker and `go worker.start()`
newWorker(queueName, view) ==
    [pc |-> "run", queueName |-> queueName, queue |-> view.queue,
     n |-> view.n, stopped |-> FALSE, item |-> 0, h |-> Nil]

Start(order) ==
    /\ stopPc = "idle"
    /\ order \in RangeOrders
    /\ LET k == workersPerQueue
           free == Ascending({w \in WorkerIds : wk[w].pc = "none"})
           names == startLoop(order, k)
           cnt == Len(names)
           nameOf(j) == names[j]
       IN  /\ cnt <= Len(free)
           /\ workers' = workers \o [j \in 1..cnt |-> free[j]]
           /\ wk' = [w \in WorkerIds |->
                  IF \E j \in 1..cnt : free[j] = w
                  THEN LET j == CHOOSE j \in 1..cnt : free[j] = w
                       IN  newWorker(nameOf(j), New(queues[nameOf(j)], k))
                  ELSE wk[w]]
           /\ wgDequeue' = wgDequeue + cnt
    /\ stopReturned' = FALSE
    /\ UNCHANGED ret
    /\ UNCHANGED <<registry, workersPerQueue, wgEnqueue, task, buf,
                   dequeueErr, stopPc, stopIdx, atStop>>

\* worker.run: Dequeue returned an item; decode, look the handler up and
\* call it
WorkerDequeue(w) ==
    /\ wk[w].pc = "run"
    /\ buf[wk[w].queue] # <<>>
    /\ LET it == Head(buf[wk[w].queue])
           pld == decode(it.data)
           hq == IF pld.err THEN NoBinding ELSE handlerQueueNames[pld.name]
       IN  /\ buf' = [buf EXCEPT ![wk[w].queue] = Tail(@)]
           /\ IF hq = NoBinding
              THEN /\ task' = [task EXCEPT ![it.id].errs = @ + 1]
                   /\ UNCHANGED wk
              ELSE /\ task' = [task EXCEPT ![it.id] =
                          [@ EXCEPT !.inv = @ + 1,
                                    !.bad = @ \/ hq.handler # task[it.id].handler
                                              \/ pld.args # task[it.id].args]]
                   /\ wk' = [wk EXCEPT ![w] =
                          [@ EXCEPT !.pc = "handle", !.item = it.id,
                                    !.h = hq.handler]]
    /\ UNCHANGED ret
    /\ UNCHANGED <<registry, workersPerQueue, workers, wgEnqueue, wgDequeue,
                   dequeueErr, stopper>>

\* mutant: the worker loop ends when a handler returns an error
HandlerReturn_StopsOnFailure(w) ==
    /\ wk[w].pc = "handle"
    /\ task' = [task EXCEPT ![wk[w].item] =
           [@ EXCEPT !.fin = @ + 1,
                     !.errs = IF HandlerFails(wk[w].h) THEN @ + 1 ELSE @]]
    /\ wk' = [wk EXCEPT ![w] =
           [@ EXCEPT !.pc = IF HandlerFails(wk[w].h) THEN "exited" ELSE "run",
                     !.item = 0, !.h = Nil]]
    /\ UNCHANGED ret
    /\ UNCHANGED <<registry, workersPerQueue, workers, wgEnqueue, wgDequeue,
                   buf, dequeueErr, stopper>>

\* the handler returns; an error goes to ErrorHandler
HandlerReturn(w) ==
    /\ wk[w].pc = "handle"
    /\ task' = [task EXCEPT ![wk[w].item] =
           [@ EXCEPT !.fin = @ + 1,
                     !.errs = IF HandlerFails(wk[w].h) THEN @ + 1 ELSE @]]
    /\ wk' = [wk EXCEPT ![w] = [@ EXCEPT !.pc = "run", !.item = 0, !.h = Nil]]
    /\ UNCHANGED ret
    /\ UNCHANGED <<registry, workersPerQueue, workers, wgEnqueue, wgDequeue,
                   buf, dequeueErr, stopper>>

\* mutant: a backend error of Dequeue ends the worker loop
WorkerDequeueError_Exits(w) ==
    /\ wk[w].pc = "run"
    /\ dequeueErr' = TRUE
    /\ wk' = [wk EXCEPT ![w].pc = "exited"]
    /\ wgDequeue' = wgDequeue - 1
    /\ UNCHANGED ret
    /\ UNCHANGED <<registry, workersPerQueue, workers, wgEnqueue, task, buf,
                   stopper>>

\* worker.run: Dequeue returned a backend error; ErrorHandler, loop again
WorkerDequeueError(w) ==
    /\ wk[w].pc = "run"
    /\ dequeueErr' = TRUE
    /\ UNCHANGED ret
    /\ UNCHANGED <<registry, workersPerQueue, wgEnqueue, task, buf, pool,
                   stopper>>

\* worker.run: Dequeue returned ErrDone; the loop ends, wg.dequeue.Done
WorkerDone(w) ==
    /\ wk[w].pc = "run"
    /\ wk[w].stopped
    /\ wk' = [wk EXCEPT ![w].pc = "exited"]
    /\ wgDequeue' = wgDequeue - 1
    /\ UNCHANGED ret
    /\ UNCHANGED <<registry, workersPerQueue, workers, wgEnqueue, task, buf,
                   dequeueErr, stopper>>

\* ------------------------------------------------------------------ Stop
\* mutant: Stop does not wait for the goroutines of Trigger
EnqueueWaitOver_NoWait == TRUE

\* wg.enqueue.Wait() returns
EnqueueWaitOver == wgEnqueue = 0

\* mutant: Stop does not wait for the worker loops
DequeueWaitOver_NoWait == TRUE

\* wg.dequeue.Wait() returns
DequeueWaitOver == wgDequeue = 0

StopCall ==
    /\ stopPc = "idle"
    /\ stopPc' = "waitEnqueue"
    /\ UNCHANGED ret
    /\ UNCHANGED <<registry, workersPerQueue, wgEnqueue, task, buf,
                   dequeueErr, pool, stopIdx, stopReturned, restarted>>

StopWaitEnqueue ==
    /\ stopPc = "waitEnqueue"
    /\ EnqueueWaitOver
    /\ stopPc' = "stopWorkers"
    /\ stopIdx' = 1
    /\ UNCHANGED ret
    /\ UNCHANGED <<registry, workersPerQueue, wgEnqueue, task, buf,
                   dequeueErr, pool, stopReturned, atStop, restarted>>

\* worker.stop(): Stop on the worker's instance view
StopWorker ==
    /\ stopPc = "stopWorkers"
    /\ stopIdx <= Len(workers)
    /\ wk' = [wk EXCEPT ![workers[stopIdx]].stopped = TRUE]
    /\ stopIdx' = stopIdx + 1
    /\ UNCHANGED ret
    /\ UNCHANGED <<registry, workersPerQueue, workers, wgEnqueue, wgDequeue,
                   task, buf, dequeueErr, stopPc, stopReturned, atStop,
                   restarted>>

\* mutant: Stop returns without clearing the worker collection
StopReturn_KeepsWorkers ==
    /\ stopPc = "stopWorkers"
    /\ stopIdx > Len(workers)
    /\ DequeueWaitOver
    /\ stopPc' = "idle"
    /\ stopIdx' = 1
    /\ stopReturned' = TRUE
    /\ UNCHANGED ret
    /\ UNCHANGED <<registry, workersPerQueue, wgEnqueue, task, buf,
                   dequeueErr, pool, atStop, restarted>>

\* mutant: Stop also empties the handler registry
StopReturn_ClearsBindings ==
    /\ stopPc = "stopWorkers"
    /\ stopIdx > Len(workers)
    /\ DequeueWaitOver
    /\ workers' = <<>>
    /\ wk' = [w \in WorkerIds |->
           IF wk[w].pc = "exited" THEN NoWorker ELSE wk[w]]
    /\ stopPc' = "idle"
    /\ stopIdx' = 1
    /\ stopReturned' = TRUE
    /\ handlerQueueNames' = [e \in EventNames |-> NoBinding]
    /\ UNCHANGED ret
    /\ UNCHANGED <<queues, workersPerQueue, wgEnqueue, wgDequeue, task, buf,
                   dequeueErr, atStop, restarted>>

\* the deferred wg.dequeue.Wait() and workers = nil, then Stop returns
StopReturn ==
    /\ stopPc = "stopWorkers"
    /\ stopIdx > Len(workers)
    /\ DequeueWaitOver
    /\ workers' = <<>>
    /\ wk' = [w \in WorkerIds |->
           IF wk[w].pc = "exited" THEN NoWorker ELSE wk[w]]
    /\ stopPc' = "idle"
    /\ stopIdx' = 1
    /\ stopReturned' = TRUE
    /\ UNCHANGED ret
    /\ UNCHANGED <<registry, workersPerQueue, wgEnqueue, wgDequeue, task, buf,
                   dequeueErr, atStop, restarted>>

\* ------------------------------------------------------------------ system
\* History of a Stop call: the Triggers that had returned when it was made.
RecordAtStop == atStop' = {t \in TriggerIds : task[t].pc # "none"}

TaskStep ==
    \/ \E t \in TriggerIds : enqueue(t)
    \/ \E t \in TriggerIds, ok \in BOOLEAN : EnqueueReturn(t, ok)

WorkerStep ==
    \/ \E w \in WorkerIds : WorkerDequeue(w)
    \/ \E w \in WorkerIds : HandlerReturn(w)
    \/ \E w \in WorkerIds : WorkerDequeueError(w)
    \/ \E w \in WorkerIds : WorkerDone(w)

StopStep == StopWaitEnqueue \/ StopWorker \/ StopReturn

Next ==
    \/ \E name \in QueueNames, queue \in Instances \cup {Nil} :
           RegisterQueue(name, queue)
    \/ \E name \in EventNames, queueName \in QueueNames, handler \in Handlers :
           AddHandler(name, queueName, handler)
    \/ \E n \in WorkerCounts : SetWorkersPerQueue(n)
    \/ \E name \in EventNames, args \in ArgLists : Trigger(name, args)
    \/ \E order \in RangeOrders : Start(order) /\ UNCHANGED restarted
    \/ StopCall /\ UNCHANGED atStop
    \/ TaskStep
    \/ WorkerStep
    \/ StopStep

\* The complete system.
Spec == Init /\ [][Next]_vars

\* Single-threaded setup: the registries are filled and events may already be
\* triggered; no worker exists yet and the goroutines of Trigger have not
\* been scheduled.
NextSetup ==
    \/ \E name \in QueueNames, queue \in Instances \cup {Nil} :
           RegisterQueue(name, queue)
    \/ \E name \in EventNames, queueName \in QueueNames, handler \in Handlers :
           AddHandler(name, queueName, handler)
    \/ \E name \in EventNames, args \in ArgLists : Trigger(name, args)

SetupSpec == Init /\ [][NextSetup]_vars

\* Steady state: setup has registered q1 alone or q1 and q2, bound e1 to q1
\* and, with q2 registered, e2 to q2; the registries are read-only from here.
InitRun ==
    /\ \E both \in BOOLEAN :
        /\ queues = [q \in QueueNames |->
               IF q = "q1" THEN "A" ELSE IF both THEN "B" ELSE Nil]
        /\ handlerQueueNames = [e \in EventNames |->
               IF e = "e1" THEN [handler |-> "h1", queueName |-> "q1"]
               ELSE IF both THEN [handler |-> "h2", queueName |-> "q2"]
               ELSE NoBinding]
    /\ workersPerQueue = 1
    /\ workers = <<>>
    /\ wgEnqueue = 0
    /\ wgDequeue = 0
    /\ task = [t \in TriggerIds |-> NoTask]
    /\ wk = [w \in WorkerIds |-> NoWorker]
    /\ buf = [i \in Instances |-> <<>>]
    /\ stopPc = "idle"
    /\ stopIdx = 1
    /\ ret = Nil
    /\ stopReturned = FALSE
    /\ atStop = {}
    /\ restarted = FALSE
    /\ dequeueErr = FALSE

NextRun ==
    \/ \E n \in WorkerCounts : SetWorkersPerQueue(n)
    \/ \E name \in EventNames, args \in ArgLists : Trigger(name, args)
    \/ \E order \in RangeOrders : Start(order) /\ UNCHANGED restarted
    \/ StopCall /\ UNCHANGED atStop
    \/ TaskStep
    \/ WorkerStep
    \/ StopStep

RunSpec == InitRun /\ [][NextRun]_vars

\* RunSpec with the history of Stop calls recorded.
NextRunHist ==
    \/ \E n \in WorkerCounts : SetWorkersPerQueue(n)
    \/ \E name \in EventNames, args \in ArgLists : Trigger(name, args)
    \/ \E order \in RangeOrders : Start(order) /\ UNCHANGED restarted
    \/ StopCall /\ RecordAtStop
    \/ TaskStep
    \/ WorkerStep
    \/ StopStep

RunSpecHist == InitRun /\ [][NextRunHist]_vars

\* History of a Start call: it follows a Stop that has returned.
RecordRestart == restarted' = (restarted \/ stopReturned)

\* RunSpec with the histories of Stop and Start calls recorded.
NextRestart ==
    \/ \E n \in WorkerCounts : SetWorkersPerQueue(n)
    \/ \E name \in EventNames, args \in ArgLists : Trigger(name, args)
    \/ \E order \in RangeOrders : Start(order) /\ RecordRestart
    \/ StopCall /\ RecordAtStop
    \/ TaskStep
    \/ WorkerStep
    \/ StopStep

RestartSpec == InitRun /\ [][NextRestart]_vars

\* A step of a goroutine the package started or of the caller inside Stop:
\* everything that can happen without a new call from the application.
GoroutineStep == TaskStep \/ WorkerStep \/ StopStep

\* The Go scheduler runs every goroutine that can run; an item a backend
\* holds is handed to a worker that waits in Dequeue.
Fairness ==
    /\ \A t \in TriggerIds : WF_vars(enqueue(t))
    /\ \A t \in TriggerIds : WF_vars(\E ok \in BOOLEAN : EnqueueReturn(t, ok))
    /\ \A w \in WorkerIds : WF_vars(WorkerDequeue(w))
    /\ \A w \in WorkerIds : WF_vars(HandlerReturn(w))
    /\ \A w \in WorkerIds : WF_vars(WorkerDone(w))
    /\ WF_vars(StopStep)

FairRunSpec == RunSpec /\ Fairness

FairRestartSpec == RestartSpec /\ Fairness

\* ------------------------------------------------------------------ claims
\* the item of Trigger t is held by a queue backend
InQueue(t) ==
    \E i \in Instances : \E j \in 1..Len(buf[i]) : buf[i][j].id = t

\* worker goroutine w has not exited
Live(w) == wk[w].pc \in {"run", "handle"}

Registered == {q \in QueueNames : queues[q] # Nil}

\* C3: once Stop has returned, and until the next Start, no handler
\* invocation begins, also for events triggered after Stop returned.
C3_StopBarrier ==
    [][stopReturned => \A t \in TriggerIds : task'[t].inv = task[t].inv]_vars

\* Stop has returned after a cycle that handled an event, and another event
\* waits in its queue.
C3_Witness ==
    /\ stopReturned
    /\ \E t1, t2 \in TriggerIds :
          task[t1].fin = 1 /\ InQueue(t2) /\ task[t2].inv = 0

\* C9: Start on an empty worker collection, with workersPerQueue = k and m
\* registered queues, leaves exactly k*m workers, all running, k for each
\* registered queue name, each with an instance view from that queue's New(k).
C9_StartCreatesWorkers ==
    [][\A order \in RangeOrders :
          (Start(order) /\ workers = <<>>) =>
              LET k == workersPerQueue
                  idx == 1..Len(workers')
              IN  /\ Len(workers') = k * Cardinality(Registered)
                  /\ Cardinality({w \in WorkerIds : wk'[w].pc # "none"})
                         = k * Cardinality(Registered)
                  /\ \A i, j \in idx : i # j => workers'[i] # workers'[j]
                  /\ \A q \in Registered :
                         Cardinality({i \in idx :
                             wk'[workers'[i]].queueName = q}) = k
                  /\ \A i \in idx :
                         LET w == wk'[workers'[i]]
                         IN  /\ w.pc = "run"
                             /\ ~w.stopped
                             /\ w.queueName \in Registered
                             /\ w.queue = queues[w.queueName]
                             /\ w.n = k]_vars

\* Start has just created two workers for one queue.
C9_Witness ==
    /\ workersPerQueue = 2
    /\ Len(workers) = 2
    /\ \A i \in 1..Len(workers) :
          wk[workers[i]].pc = "run" /\ wk[workers[i]].n = 2
    /\ Cardinality(Registered) = 1

\* C5: Trigger on a name without binding returns an error and changes
\* nothing: no task is started, no Enqueue is attempted, wg.enqueue and both
\* registries stay as they are, and ErrorHandler is not called.
C5_TriggerUnregistered ==
    [][\A name \in EventNames, args \in ArgLists :
          (Trigger(name, args) /\ handlerQueueNames[name] = NoBinding) =>
              /\ ret' = "Trigger error"
              /\ UNCHANGED <<queues, handlerQueueNames, workersPerQueue,
                             wgEnqueue, task, buf, dequeueErr, workers, wk,
                             wgDequeue>>]_vars

\* Trigger has just failed for an unbound name while the Trigger of a bound
\* name is pending.
C5_Witness ==
    /\ ret = "Trigger error"
    /\ wgEnqueue = 1
    /\ \E e \in EventNames : handlerQueueNames[e] = NoBinding

\* C6: AddHandler for a name that already has a binding returns an error
\* and leaves the handler registry unchanged; no binding is ever replaced,
\* and every Trigger uses the handler and the queue its name was first
\* bound to.
C6_AddHandlerTwice ==
    /\ [][/\ \A name \in EventNames, queueName \in QueueNames,
                h \in Handlers :
                (AddHandler(name, queueName, h)
                    /\ handlerQueueNames[name] # NoBinding) =>
                        /\ ret' = "AddHandler error"
                        /\ handlerQueueNames' = handlerQueueNames
          /\ \A name \in EventNames :
                handlerQueueNames[name] # NoBinding =>
                    handlerQueueNames'[name] = handlerQueueNames[name]]_vars
    /\ [](\A t \in TriggerIds :
            task[t].pc # "none" =>
                /\ task[t].handler = handlerQueueNames[task[t].name].handler
                /\ task[t].queue =
                       queues[handlerQueueNames[task[t].name].queueName])

\* With both queues registered AddHandler has just failed, so for a name
\* that was bound already, and an event of a bound name was triggered since
\* the registry last changed.
C6_Witness ==
    /\ ret = "AddHandler error"
    /\ Registered = QueueNames
    /\ \E t \in TriggerIds : task[t].pc # "none"

\* C7: every binding of the handler registry names a registered queue:
\* AddHandler with an unregistered queue name returns an error and inserts
\* nothing, and no registered queue is removed.
C7_BindingNamesRegisteredQueue ==
    /\ [](\A name \in EventNames :
            handlerQueueNames[name] # NoBinding =>
                queues[handlerQueueNames[name].queueName] # Nil)
    /\ [][/\ \A name \in EventNames, queueName \in QueueNames,
                h \in Handlers :
                (AddHandler(name, queueName, h) /\ queues[queueName] = Nil) =>
                    /\ ret' = "AddHandler error"
                    /\ handlerQueueNames' = handlerQueueNames
          /\ \A q \in QueueNames : queues[q] # Nil => queues'[q] # Nil]_vars

\* AddHandler has just failed while no name is bound, so for a queue name
\* that is not registered, while another queue is.
C7_Witness ==
    /\ ret = "AddHandler error"
    /\ \A name \in EventNames : handlerQueueNames[name] = NoBinding
    /\ Registered # {}

\* C8: RegisterQueue with a nil queue or a registered name panics and
\* leaves the queue registry unchanged; otherwise it inserts exactly
\* (name, queue).  A registered queue is never replaced.
C8_RegisterQueue ==
    [][/\ \A name \in QueueNames, queue \in Instances \cup {Nil} :
            RegisterQueue(name, queue) =>
                IF queue = Nil \/ queues[name] # Nil
                THEN ret' = "RegisterQueue panic" /\ queues' = queues
                ELSE /\ ret' = Nil
                     /\ queues' = [queues EXCEPT ![name] = queue]
       /\ \A q \in QueueNames : queues[q] # Nil => queues'[q] = queues[q]]_vars

\* RegisterQueue has just panicked for a second registration of a name: both
\* names are registered, with different queues.
C8_Witness ==
    /\ ret = "RegisterQueue panic"
    /\ Registered = QueueNames
    /\ queues["q1"] # queues["q2"]

\* a worker goroutine that was not told to stop serves the queue of Trigger t,
\* and Stop is not running
Served(t) ==
    /\ stopPc = "idle"
    /\ \E w \in WorkerIds :
          Live(w) /\ ~wk[w].stopped /\ wk[w].queue = task[t].queue

\* the goroutine of Trigger t called queue.Enqueue and the backend refused
\* the item: the call was made, the goroutine is over, and the item is
\* neither held by the backend nor was it ever handed to a worker
Refused(t) ==
    /\ task[t].pc = "done"
    /\ task[t].enq = 1
    /\ task[t].inv = 0
    /\ ~InQueue(t)

\* the arguments of Trigger t can be encoded
Encodable(t) == ~encode([name |-> task[t].name, args |-> task[t].args]).err

\* C1, as claimed: with workers running, every Trigger that returned success
\* and whose item the backend did not refuse leads to exactly one invocation
\* of its handler: once its goroutine is over, the item is in the queue or
\* the handler was invoked once.
C1_EveryTriggerInvokes ==
    \A t \in TriggerIds :
        (task[t].pc = "done" /\ Served(t) /\ ~Refused(t)) =>
            (InQueue(t) \/ task[t].inv = 1)

C1_Safe ==
    \A t \in TriggerIds :
        /\ task[t].inv <= 1
        /\ ~task[t].bad
        /\ task[t].inv = 1 => (Encodable(t) /\ task[t].enq = 1)

\* C1, amended: a Trigger that returned success leads to exactly one
\* invocation of its handler, with the arguments passed to Trigger, when its
\* arguments can be encoded and the backend accepted the item, while workers
\* serve the queue and Stop is not called; a Trigger whose arguments cannot be
\* encoded returns success too and its handler is never invoked; no handler
\* is invoked twice for one Trigger.
C1_EncodedTriggerInvokesOnce ==
    /\ []C1_Safe
    /\ \A t \in TriggerIds :
          (InQueue(t) /\ Served(t)) ~> (task[t].inv = 1 \/ stopPc # "idle")

\* An event triggered with two arguments was handled once, with these
\* arguments, by a worker that Stop has not stopped.
C1_Witness ==
    \E t \in TriggerIds :
        /\ task[t].args = <<"a", "b">>
        /\ task[t].inv = 1
        /\ task[t].fin = 1
        /\ ~task[t].bad
        /\ Served(t)

\* C4, as claimed: the goroutine of every Trigger that returned success calls
\* Enqueue exactly once, also when encoding fails.
C4_AlwaysOneEnqueue ==
    \A t \in TriggerIds : task[t].pc = "done" => task[t].enq = 1

C4_Safe ==
    \A t \in TriggerIds :
        /\ task[t].enq <= 1
        /\ task[t].pc \in {"inEnqueue", "done"} =>
              task[t].enq = (IF Encodable(t) THEN 1 ELSE 0)
        /\ (task[t].pc = "done" /\ ~Encodable(t)) =>
              (task[t].errs = 1 /\ task[t].inv = 0)

\* C4, amended: a Trigger that returned success results in exactly one call
\* of Enqueue when its arguments can be encoded; when they cannot, Enqueue
\* is not called at all and the encoding error is passed to ErrorHandler
\* once; never more than one call.
C4_OneEnqueueIfEncodable ==
    /\ []C4_Safe
    /\ \A t \in TriggerIds :
          (task[t].pc = "start") ~> (task[t].pc \in {"inEnqueue", "done"})

\* One Trigger's goroutine is over after one call of Enqueue, another's is
\* over without any because its arguments cannot be encoded.
C4_Witness ==
    \E t, u \in TriggerIds :
        /\ task[t].pc = "done" /\ Encodable(t) /\ task[t].enq = 1
        /\ task[u].pc = "done" /\ ~Encodable(u) /\ task[u].enq = 0

\* C2: every Trigger that returned before Stop was called has, when Stop
\* returns, been handled by its handler or had a failure passed to
\* ErrorHandler.
C2_NoSilentDrop ==
    stopReturned =>
        \A t \in atStop : task[t].fin >= 1 \/ task[t].errs >= 1

\* C10: a call of Stop returns: while Stop has not returned, some goroutine
\* or the caller of Stop can take a step.
C10_StopNotStuck == stopPc # "idle" => ENABLED GoroutineStep

\* C11: a Start that follows a returned Stop finds the worker collection
\* empty and no worker goroutine left, and creates k running workers with
\* fresh views for every registered queue; in that cycle an item held by a
\* served queue is again dispatched to its handler, once and with its
\* arguments.
C11_Restart ==
    /\ [][\A order \in RangeOrders :
            (Start(order) /\ stopReturned) =>
                LET k == workersPerQueue
                    idx == 1..Len(workers')
                IN  /\ workers = <<>>
                    /\ \A w \in WorkerIds : wk[w].pc = "none"
                    /\ Len(workers') = k * Cardinality(Registered)
                    /\ \A q \in Registered :
                           Cardinality({i \in idx :
                               wk'[workers'[i]].queueName = q}) = k
                    /\ \A i \in idx :
                           /\ wk'[workers'[i]].pc = "run"
                           /\ ~wk'[workers'[i]].stopped]_vars
    /\ [](restarted =>
            \A t \in TriggerIds : task[t].inv <= 1 /\ ~task[t].bad)
    /\ \A t \in TriggerIds :
          (restarted /\ InQueue(t) /\ Served(t))
              ~> (task[t].inv = 1 \/ stopPc # "idle")

\* In a cycle begun by a Start after a returned Stop, a worker is handling an
\* event that was triggered after that Stop was called; an event of the
\* first cycle was handled before the Stop.
C11_Witness ==
    /\ restarted
    /\ stopPc = "idle"
    /\ \E w \in WorkerIds, t, u \in TriggerIds :
          /\ wk[w].pc = "handle" /\ wk[w].item = t /\ ~wk[w].stopped
          /\ t \notin atStop
          /\ u \in atStop /\ task[u].fin = 1

\* the handler of Trigger u has returned an error on the queue of Trigger t
FailedBefore(t, u) ==
    /\ u # t
    /\ task[u].queue = task[t].queue
    /\ task[u].fin = 1
    /\ HandlerFails(task[u].handler)

\* C12: when a handler returns, with an error or without, its worker goes
\* back to Dequeue, and ErrorHandler is called once if and only if the
\* handler returned an error; an item that a served queue holds after a
\* handler failed on that queue is still dispatched.
C12_HandlerFailureKeepsWorker ==
    /\ [][\A w \in WorkerIds :
            HandlerReturn(w) =>
                /\ wk'[w].pc = "run"
                /\ task'[wk[w].item].errs = task[wk[w].item].errs +
                       (IF HandlerFails(wk[w].h) THEN 1 ELSE 0)
                /\ \A t \in TriggerIds \ {wk[w].item} :
                       task'[t].errs = task[t].errs]_vars
    /\ [](\A t \in TriggerIds :
            task[t].inv >= 1 =>
                task[t].errs =
                    (IF HandlerFails(task[t].handler) THEN task[t].fin ELSE 0))
    /\ \A t, u \in TriggerIds :
          (FailedBefore(t, u) /\ InQueue(t) /\ Served(t))
              ~> (task[t].inv = 1 \/ stopPc # "idle")

\* After the handler of one event returned an error, reported once, a worker
\* that was not stopped is handling the next event of the same queue.
C12_Witness ==
    \E t, u \in TriggerIds, w \in WorkerIds :
        /\ FailedBefore(t, u)
        /\ task[u].errs = 1
        /\ wk[w].pc = "handle" /\ wk[w].item = t /\ ~wk[w].stopped
        /\ stopPc = "idle"

\* C13: workersPerQueue is at least 1 in every state: SetWorkersPerQueue(n)
\* stores n when n >= 1 and 1 otherwise, and every Start adds at least one
\* worker for each registered queue.
C13_WorkersPerQueuePositive ==
    /\ [](workersPerQueue >= 1)
    /\ [][/\ \A n \in WorkerCounts :
               SetWorkersPerQueue(n) =>
                   workersPerQueue' = (IF n >= 1 THEN n ELSE 1)
          /\ \A order \in RangeOrders :
               Start(order) =>
                   \A q \in Registered :
                       \E i \in (Len(workers) + 1)..Len(workers') :
                           wk'[workers'[i]].queueName = q]_vars

\* workersPerQueue is 1 again while workers created with the value 2 run.
C13_Witness ==
    /\ workersPerQueue = 1
    /\ \E w \in WorkerIds : Live(w) /\ wk[w].n = 2

\* the goroutine of every Trigger that returned before Stop was called is
\* over
StartedBeforeStopDone == \A t \in atStop : task[t].pc = "done"

\* C14: Stop goes through its steps in order: it leaves the wait for the
\* Trigger goroutines only when wg.enqueue is zero, so when every Trigger
\* that returned before the call is over; a view is stopped only after
\* that; Stop returns, clearing the worker collection, only after every view
\* of the collection was stopped and every worker loop has exited.
C14_StopOrder ==
    [][/\ (stopPc = "idle" /\ stopPc' # "idle") => stopPc' = "waitEnqueue"
       /\ (stopPc = "waitEnqueue" /\ stopPc' # "waitEnqueue") =>
              /\ stopPc' = "stopWorkers"
              /\ wgEnqueue = 0
              /\ StartedBeforeStopDone
              /\ wk' = wk /\ workers' = workers
       /\ \A w \in WorkerIds :
              (~wk[w].stopped /\ wk'[w].stopped) =>
                  /\ stopPc = "stopWorkers"
                  /\ StartedBeforeStopDone
                  /\ workers' = workers
       /\ (stopPc = "stopWorkers" /\ stopPc' # "stopWorkers") =>
              /\ stopPc' = "idle"
              /\ \A i \in 1..Len(workers) :
                     wk[workers[i]].stopped /\ wk[workers[i]].pc = "exited"
              /\ wgDequeue = 0
              /\ workers' = <<>>
       /\ (workers # <<>> /\ workers' = <<>>) =>
              /\ stopPc = "stopWorkers"
              /\ \A w \in WorkerIds : ~Live(w)]_vars

\* Stop has stopped the view of one worker, whose loop still runs, after the
\* Triggers that preceded the call were over; the goroutine of a Trigger
\* made during Stop is pending.
C14_Witness ==
    /\ stopPc = "stopWorkers"
    /\ stopIdx = 2
    /\ atStop # {}
    /\ \E w \in WorkerIds : wk[w].stopped /\ Live(w)
    /\ \E t \in TriggerIds \ atStop : task[t].pc \in {"start", "inEnqueue"}

Pending(t) == task[t].pc \in {"start", "inEnqueue"}

\* C16: Trigger of a bound name returns success; no step of its goroutine
\* changes what a caller was returned; the goroutine calls ErrorHandler once
\* when it ends without its item in the queue (encoding or Enqueue failed)
\* and not at all otherwise.
C16_AsyncFailuresToErrorHandler ==
    /\ [][/\ \A name \in EventNames, args \in ArgLists :
               (Trigger(name, args) /\ handlerQueueNames[name] # NoBinding)
                   => ret' = Nil
          /\ TaskStep => ret' = ret
          /\ \A t \in TriggerIds :
               /\ (Pending(t) /\ task'[t].pc = "done") =>
                      task'[t].errs = (IF InQueue(t)' THEN 0 ELSE 1)
               /\ (Pending(t) /\ Pending(t)') => task'[t].errs = 0]_vars
    /\ [](\A t \in TriggerIds :
            /\ Pending(t) => task[t].errs = 0
            /\ (task[t].pc = "done" /\ InQueue(t)) => task[t].errs = 0
            /\ (task[t].pc = "done" /\ ~InQueue(t) /\ task[t].inv = 0) =>
                   task[t].errs = 1)

\* Trigger returned success twice: one goroutine ended with an encoding
\* error, the other with an error of Enqueue, and each was reported once.
C16_Witness ==
    /\ ret = Nil
    /\ \E t, u \in TriggerIds :
          /\ task[t].pc = "done" /\ ~Encodable(t) /\ task[t].errs = 1
          /\ task[u].pc = "done" /\ Refused(u) /\ task[u].errs = 1

\* C17: when Stop returns no goroutine of a Trigger is pending, also for
\* Triggers made while Stop runs, and no goroutine of a Trigger calls
\* Enqueue on a queue after Stop has stopped a worker view of that queue.
C17_NoTaskInFlightAfterStop ==
    [][/\ (stopPc = "stopWorkers" /\ stopPc' = "idle") =>
              \A t \in TriggerIds : ~Pending(t)
       /\ \A t \in TriggerIds :
              (task[t].pc = "start" /\ task'[t].pc = "inEnqueue") =>
                  ~\E w \in WorkerIds :
                      wk[w].stopped /\ wk[w].queue = task[t].queue]_vars

\* C18: wg.enqueue is the number of Trigger goroutines started and not
\* over, and is never negative: a successful Trigger adds one, the end of
\* its goroutine, with or without a failure, takes one, and nothing else
\* changes it.
C18_PendingEnqueueCounter ==
    /\ [](/\ wgEnqueue = Cardinality({t \in TriggerIds : Pending(t)})
          /\ wgEnqueue >= 0)
    /\ [][/\ \A name \in EventNames, args \in ArgLists :
               (Trigger(name, args) /\ handlerQueueNames[name] # NoBinding)
                   => wgEnqueue' = wgEnqueue + 1
          /\ \A t \in TriggerIds :
               (Pending(t) /\ task'[t].pc = "done") =>
                   wgEnqueue' = wgEnqueue - 1
          /\ (\A t \in TriggerIds : Pending(t) <=> Pending(t)') =>
                   wgEnqueue' = wgEnqueue]_vars

\* One Trigger goroutine ended with an encoding error, another with an error
\* of Enqueue, and the counter is back to zero.
C18_Witness ==
    /\ wgEnqueue = 0
    /\ \E t, u \in TriggerIds :
          /\ task[t].pc = "done" /\ ~Encodable(t)
          /\ task[u].pc = "done" /\ Refused(u)

\* every item a backend holds has the binding its Trigger found
ItemsBound ==
    \A i \in Instances : \A j \in 1..Len(buf[i]) :
        LET pld == decode(buf[i][j].data)
        IN  /\ ~pld.err
            /\ handlerQueueNames[pld.name] # NoBinding
            /\ handlerQueueNames[pld.name].handler =
                   task[buf[i][j].id].handler

\* C19: Trigger, Start, Stop, SetWorkersPerQueue and the goroutines leave
\* both registries unchanged, so every item a backend holds keeps its
\* binding and every dequeued item is handed to its handler: a worker never
\* reports a missing handler.
C19_RegistriesImmutable ==
    /\ [][/\ queues' = queues
          /\ handlerQueueNames' = handlerQueueNames
          /\ \A w \in WorkerIds :
               WorkerDequeue(w) => wk'[w].pc = "handle"]_vars
    /\ []ItemsBound

\* After SetWorkersPerQueue(2), Start and two Triggers, one event was handled
\* and a worker is handling the other.
C19_Witness ==
    /\ workersPerQueue = 2
    /\ ~stopReturned
    /\ \E t, u \in TriggerIds :
          /\ task[t].fin = 1
          /\ task[u].pc = "done" /\ task[u].inv = 1 /\ task[u].fin = 0
          /\ \E w \in WorkerIds : wk[w].item = u /\ wk[w].n = 2

====
